---- MODULE Spec2Model ----
(***************************************************************************)
(* Chunking and hybrid retrieval of the lease RAG system.                  *)
(*                                                                         *)
(*   Chunker      src/src/chunking/chunker.py                              *)
(*   TextCleaner  src/src/preprocessing/text_cleaner.py                    *)
(*   HybridRanker src/src/search/hybrid_ranker.py                          *)
(*   ChromaStore  src/src/database/chroma_store.py                         *)
(*                                                                         *)
(* A text is a sequence of characters.  The alphabet is reduced to word    *)
(* characters, the space, and the blank line "\n\n" (one symbol, BL).      *)
(***************************************************************************)
EXTENDS Integers, Sequences, FiniteSets, TLC

VARIABLES
    \* ---- Chunker ----
    chunk_size,        \* Chunker.chunk_size
    chunk_overlap,     \* Chunker.chunk_overlap
    min_chunk_size,    \* Chunker.min_chunk_size
    doc,               \* the ParsedDocument handed to chunk_document
    chunks,            \* the list chunk_document returned
    chunked,           \* chunk_document has returned or raised
    chunk_error,       \* chunk_document raised
    \* ---- ChromaStore / HybridRanker ----
    store,             \* ChromaStore.collection: rows in insertion order
    next_id,           \* ids handed out so far (uuid4: never reused)
    rk,                \* HybridRanker constructor parameters
    bm25_index,        \* HybridRanker._bm25_index: "None" or "built"
    bm25_ids,          \* HybridRanker._bm25_ids
    bm25_docs,         \* HybridRanker._bm25_docs
    bm25_metadatas,    \* HybridRanker._bm25_metadatas
    bm25_corpus,       \* the documents the BM25Okapi object in _bm25_index was built over
    ret,               \* the last call of HybridRanker.search and its outcome
    threads,           \* request threads sharing the ranker: position and locals of each
    \* ---- AgentRouter ----
    router,            \* AgentRouter: agents, query_engine, confidence_threshold
    route_ret,         \* the last call of AgentRouter.route or execute and its outcome
    \* ---- SQLStore ----
    tenants,           \* table tenants, in tenant_id order
    leases,            \* table leases, in lease_id order
    lease_alerts,      \* table lease_alerts, in alert_id order
    sql_ret,           \* the last call on the SQLStore and its outcome
    first_tenant_id    \* history: per tenant name, the id its first add_tenant returned (0: none yet)

chunker_vars == <<chunk_size, chunk_overlap, min_chunk_size, doc, chunks, chunked, chunk_error>>
ranker_vars == <<store, next_id, rk, bm25_index, bm25_ids, bm25_docs, bm25_metadatas, bm25_corpus, ret, threads>>
router_vars == <<router, route_ret>>
sql_vars == <<tenants, leases, lease_alerts, sql_ret, first_tenant_id>>
vars == <<chunker_vars, ranker_vars, router_vars, sql_vars>>

(***************************************************************************)
(* Bounds of the model.                                                    *)
(***************************************************************************)
MaxChars == 6      \* longest raw section text, in characters
MaxChunks == 3     \* chunks ever added to the store
MaxAgents == 2     \* agents registered with the router at one time
MaxLeases == 2     \* leases ever added to the SQLStore

(***************************************************************************)
(* Text: characters, tiktoken's token boundaries, str.split, str.strip.    *)
(***************************************************************************)
SP == " "
NL == "\n"
BL == "\n\n"
Words == {"a", "b"}
Chars == Words \cup {SP, BL}

IsSpace(c) == c \in {SP, NL, BL}

\* Sequences over S of length 0..n.
SeqsUpTo(S, n) == UNION {[1..k -> S] : k \in 0..n}

\* Position i of text starts a token.  A word is one token and takes a single
\* space in front of it into the token (" word"); a run of blank lines is one
\* token; any other space is a token of its own.
TokStart(text, i) ==
    IF i = 1 THEN TRUE
    ELSE IF text[i] = BL THEN text[i-1] # BL
    ELSE IF text[i] \in {SP, NL} THEN TRUE
    ELSE text[i-1] # SP

\* The positions where the tokens of self.tokenizer.encode(text) start.
TokStarts(text) == {i \in 1..Len(text) : TokStart(text, i)}

\* len(self.tokenizer.encode(text))
count_tokens(text) == Cardinality(TokStarts(text))

\* The largest p in lo..(hi-1) with at least k token starts at or after p
\* (lo is such a p, hi is not).
RECURSIVE SearchLast(_, _, _, _)
SearchLast(S, k, lo, hi) ==
    IF hi - lo <= 1 THEN lo
    ELSE LET mid == (lo + hi) \div 2
         IN  IF Cardinality({q \in S : q >= mid}) >= k
             THEN SearchLast(S, k, mid, hi)
             ELSE SearchLast(S, k, lo, mid)

\* self.tokenizer.decode(self.tokenizer.encode(text)[-k:]), k > 0
DecodeLastTokens(text, k) ==
    LET S == TokStarts(text)
    IN  IF Cardinality(S) <= k THEN text
        ELSE IF k = 0 THEN <<>>
        ELSE SubSeq(text, SearchLast(S, k, 1, Len(text) + 1), Len(text))

\* The smallest p in (lo+1)..hi with at least m token starts at or before p
\* (hi is such a p, lo is not).
RECURSIVE SearchFirst(_, _, _, _)
SearchFirst(S, m, lo, hi) ==
    IF hi - lo <= 1 THEN hi
    ELSE LET mid == (lo + hi) \div 2
         IN  IF Cardinality({q \in S : q <= mid}) >= m
             THEN SearchFirst(S, m, lo, mid)
             ELSE SearchFirst(S, m, mid, hi)

\* self.tokenizer.decode(self.tokenizer.encode(text)[:k])
DecodeFirstTokens(text, k) ==
    LET S == TokStarts(text)
    IN  IF Cardinality(S) <= k THEN text
        ELSE SubSeq(text, 1, SearchFirst(S, k + 1, 0, Len(text)) - 1)

\* Keep the characters whose (previous, own, next) triple passes Keep.
Triples(text) ==
    [i \in 1..Len(text) |->
        <<IF i = 1 THEN "^" ELSE text[i-1], text[i],
          IF i = Len(text) THEN "$" ELSE text[i+1]>>]

Project(triples) == [i \in 1..Len(triples) |-> triples[i][2]]

\* str.strip()
Strip(text) ==
    LET solid == {i \in 1..Len(text) : ~IsSpace(text[i])}
    IN  IF solid = {} THEN <<>>
        ELSE LET lo == CHOOSE i \in solid : \A j \in 1..(i-1) : j \notin solid
                 hi == CHOOSE i \in solid : \A j \in (i+1)..Len(text) : j \notin solid
             IN  SubSeq(text, lo, hi)

\* str.split('\n\n')
RECURSIVE SplitBL(_)
SplitBL(text) ==
    LET cuts == {i \in 1..Len(text) : text[i] = BL}
    IN  IF cuts = {} THEN <<text>>
        ELSE LET p == CHOOSE i \in cuts : \A j \in 1..(i-1) : j \notin cuts
             IN  <<SubSeq(text, 1, p - 1)>> \o SplitBL(SubSeq(text, p + 1, Len(text)))

(***************************************************************************)
(* TextCleaner                                                             *)
(***************************************************************************)
NotSecondSpace(t) == ~(t[2] = SP /\ t[1] = SP)
NotSecondBlank(t) == ~(t[2] = BL /\ t[1] = BL)
NotLineEdgeSpace(t) == ~(t[2] = SP /\ (t[1] \in {"^", NL, BL} \/ t[3] \in {"$", NL, BL}))

\* TextCleaner.clean: multiple_spaces, multiple_newlines, the strip of every
\* line, the strip of the text.
clean(text) ==
    LET s1 == Project(SelectSeq(Triples(text), NotSecondSpace))
        s2 == Project(SelectSeq(Triples(s1), NotSecondBlank))
        s3 == Project(SelectSeq(Triples(s2), NotLineEdgeSpace))
    IN  Strip(s3)

\* TextCleaner.clean_for_embedding: the normalisations after clean() rewrite
\* dates, currency, areas, underscores, dots and quotes, none of which the
\* alphabet holds.
clean_for_embedding(text) == clean(text)

(***************************************************************************)
(* Chunker                                                                 *)
(***************************************************************************)
\* Chunker._determine_section_type; section names are kept lower-case.
_determine_section_type(section_name) ==
    CASE section_name = "article i"  -> "article"
      [] section_name = "exhibit a"  -> "exhibit"
      [] section_name = "data sheet" -> "data_sheet"
      [] section_name = "rent roll"  -> "rent_schedule"
      [] OTHER                       -> "general"

\* The Chunk dataclass.  part is the n of the " (Part n)" suffix of
\* section_name (0: no suffix); chunk_part is metadata["chunk_part"] (0: absent).
Chunk(content, token_count, section_type, section_name, part, chunk_part) ==
    [content |-> content, token_count |-> token_count,
     section_type |-> section_type, section_name |-> section_name,
     part |-> part, chunk_part |-> chunk_part, chunk_index |-> 0]

\* Chunker._get_overlap_text
_get_overlap_text(text) ==
    IF count_tokens(text) <= chunk_overlap THEN text
    ELSE IF chunk_overlap = 0 THEN text      \* tokens[-0:] is the whole list
    ELSE DecodeLastTokens(text, chunk_overlap)

\* The loop of Chunker._split_large_section over the paragraphs.
RECURSIVE SplitLoop(_, _, _, _, _, _, _)
SplitLoop(paragraphs, current_chunk_text, current_tokens, chunk_number, out, section_name, section_type) ==
    IF paragraphs = <<>> THEN
        [current_chunk_text |-> current_chunk_text, current_tokens |-> current_tokens,
         chunk_number |-> chunk_number, chunks |-> out]
    ELSE
        LET para == Head(paragraphs)
            para_tokens == count_tokens(para)
        IN  IF current_tokens + para_tokens > chunk_size /\ current_chunk_text # <<>> THEN
                LET chunk == Chunk(Strip(current_chunk_text), current_tokens,
                                   section_type, section_name, chunk_number, chunk_number)
                    overlap_text == _get_overlap_text(current_chunk_text)
                    seeded == overlap_text \o <<BL>> \o para
                IN  SplitLoop(Tail(paragraphs), seeded, count_tokens(seeded),
                              chunk_number + 1, Append(out, chunk),
                              section_name, section_type)
            ELSE
                SplitLoop(Tail(paragraphs),
                          IF current_chunk_text # <<>>
                          THEN current_chunk_text \o <<BL>> \o para
                          ELSE para,
                          current_tokens + para_tokens, chunk_number, out,
                          section_name, section_type)

\* Chunker._split_large_section
_split_large_section(content, section_name, section_type) ==
    LET end == SplitLoop(SplitBL(content), <<>>, 0, 1, <<>>, section_name, section_type)
        text == end.current_chunk_text
    IN  IF text # <<>> /\ count_tokens(text) >= min_chunk_size
        THEN Append(end.chunks,
                    Chunk(Strip(text), count_tokens(text), section_type, section_name,
                          IF end.chunk_number > 1 THEN end.chunk_number ELSE 0,
                          end.chunk_number))
        ELSE end.chunks

\* A section loop that keeps a small section only above min_chunk_size
\* tokens (> where the code has >=).
ChunkSectionAboveMin(section) ==
    LET cleaned_content == clean_for_embedding(section.content)
        token_count == count_tokens(cleaned_content)
        section_type == _determine_section_type(section.name)
    IN  IF token_count <= chunk_size
        THEN IF token_count > min_chunk_size
             THEN <<Chunk(cleaned_content, token_count, section_type, section.name, 0, 0)>>
             ELSE <<>>
        ELSE _split_large_section(cleaned_content, section.name, section_type)

\* The body of the loop of Chunker._chunk_by_sections for one section.
ChunkSection(section) ==
    LET cleaned_content == clean_for_embedding(section.content)
        token_count == count_tokens(cleaned_content)
        section_type == _determine_section_type(section.name)
    IN  IF token_count <= chunk_size
        THEN IF token_count >= min_chunk_size
             THEN <<Chunk(cleaned_content, token_count, section_type, section.name, 0, 0)>>
             ELSE <<>>
        ELSE _split_large_section(cleaned_content, section.name, section_type)

\* Chunker._chunk_by_sections
RECURSIVE _chunk_by_sections(_)
_chunk_by_sections(sections) ==
    IF sections = <<>> THEN <<>>
    ELSE ChunkSection(Head(sections)) \o _chunk_by_sections(Tail(sections))

\* The rendering of the data-sheet map: the title, a blank line, one
\* "Key: value" line per entry.
RECURSIVE DataSheetLines(_)
DataSheetLines(entries) ==
    IF entries = <<>> THEN <<>>
    ELSE <<Head(entries).key, SP, Head(entries).value, NL>> \o DataSheetLines(Tail(entries))

\* A data-sheet chunk that is kept only from min_chunk_size tokens on, as a
\* section chunk is.
ChunkDataSheetAboveMin(d) ==
    IF d.data_sheet = <<>> THEN <<>>
    ELSE LET data_sheet_text == clean_for_embedding(<<"a", BL>> \o DataSheetLines(d.data_sheet))
         IN  IF count_tokens(data_sheet_text) >= min_chunk_size
             THEN <<Chunk(data_sheet_text, count_tokens(data_sheet_text),
                          "data_sheet", "Data Sheet", 0, 0)>>
             ELSE <<>>

\* Chunker._chunk_data_sheet
_chunk_data_sheet(d) ==
    IF d.data_sheet = <<>> THEN <<>>
    ELSE LET data_sheet_text == clean_for_embedding(<<"a", BL>> \o DataSheetLines(d.data_sheet))
         IN  <<Chunk(data_sheet_text, count_tokens(data_sheet_text),
                     "data_sheet", "Data Sheet", 0, 0)>>

\* Chunker._chunk_rent_schedules
RECURSIVE _chunk_rent_schedules(_)
_chunk_rent_schedules(tables) ==
    IF tables = <<>> THEN <<>>
    ELSE LET table == Head(tables)
             rent_text == clean_for_embedding(<<"b", BL>> \o table.raw_text)
         IN  (IF table.table_type = "rent_schedule"
              THEN <<Chunk(rent_text, count_tokens(rent_text),
                           "rent_schedule", "Rent Schedule", 0, 0)>>
              ELSE <<>>) \o _chunk_rent_schedules(Tail(tables))

\* A chunk_document that emits the section chunks first.
ChunkDocumentSectionsFirst(d) ==
    LET all == _chunk_by_sections(d.sections) \o _chunk_data_sheet(d)
               \o _chunk_rent_schedules(d.tables)
    IN  [i \in 1..Len(all) |-> [all[i] EXCEPT !.chunk_index = i - 1]]

\* Chunker.chunk_document
chunk_document(d) ==
    LET all == _chunk_data_sheet(d) \o _chunk_rent_schedules(d.tables)
               \o _chunk_by_sections(d.sections)
    IN  [i \in 1..Len(all) |-> [all[i] EXCEPT !.chunk_index = i - 1]]

\* tokenizer.encode raises ValueError on a text that holds a special token of
\* the encoding (written as the one symbol ET): count_tokens raises on it.
ET == "<|endoftext|>"

EncodeRaises(text) == \E i \in 1..Len(text) : text[i] = ET

\* chunk_document catches nothing: it raises when count_tokens raises on the
\* data sheet, on a rent schedule or on a section.
DocumentRaises(d) ==
    \/ d.data_sheet # <<>> /\ EncodeRaises(DataSheetLines(d.data_sheet))
    \/ \E i \in 1..Len(d.tables) :
        d.tables[i].table_type = "rent_schedule" /\ EncodeRaises(d.tables[i].raw_text)
    \/ \E i \in 1..Len(d.sections) : EncodeRaises(d.sections[i].content)

(***************************************************************************)
(* The values that stand for an idle half of the system.                   *)
(***************************************************************************)
NoDoc == [sections |-> <<>>, data_sheet |-> <<>>, tables |-> <<>>]
NoCall == [status |-> "none"]

\* The threads that share one HybridRanker: two serving queries, one running
\* the refresh after an ingestion.
QueryThreads == {"q1", "q2"}
RefreshThread == "r"
ThreadIds == QueryThreads \cup {RefreshThread}
IdleThread == [pc |-> "idle"]
IdleThreads == [t \in ThreadIds |-> IdleThread]

\* Tenant names handed to the SQLStore.
TenantNames == {"A", "B"}

\* The router and the SQLStore as they are while another part is exercised:
\* a router without agents and engine, an empty database.
RouterIdle ==
    /\ router = [agents |-> <<>>, query_engine |-> "None", confidence_threshold |-> 7]
    /\ route_ret = NoCall

SqlIdle ==
    /\ tenants = <<>> /\ leases = <<>> /\ lease_alerts = <<>>
    /\ sql_ret = NoCall
    /\ first_tenant_id = [name \in TenantNames |-> 0]

ChunkerIdle ==
    /\ chunk_size = 0 /\ chunk_overlap = 0 /\ min_chunk_size = 0
    /\ doc = NoDoc /\ chunks = <<>> /\ chunked = FALSE /\ chunk_error = FALSE

RankerIdle ==
    /\ store = <<>> /\ next_id = 0 /\ rk = <<>>
    /\ bm25_index = "None" /\ bm25_ids = <<>> /\ bm25_docs = <<>>
    /\ bm25_metadatas = <<>> /\ bm25_corpus = <<>> /\ ret = NoCall
    /\ threads = IdleThreads

(***************************************************************************)
(* Chunking one document: SpecChunker.                                     *)
(***************************************************************************)
SectionNames == {"article i", "premises"}

\* Chunker.__init__ takes any three integers; the sizes tried here.
ChunkerConfigs ==
    {c \in [chunk_size : {2, 3}, chunk_overlap : {1, 2}, min_chunk_size : {1, 2}] :
        c.chunk_overlap < c.chunk_size}
    \cup {[chunk_size |-> 6, chunk_overlap |-> 1, min_chunk_size |-> 5]}

RawTexts == SeqsUpTo(Chars, MaxChars)
ShortTexts == SeqsUpTo(Words, 2)

OneSectionDocs ==
    {[sections |-> <<[name |-> n, content |-> t]>>, data_sheet |-> <<>>, tables |-> <<>>] :
        n \in SectionNames, t \in RawTexts}

\* A section of two paragraphs, and three tables: a short rent schedule, a
\* table of another type and a long rent schedule.
SplitTexts == {<<"a", BL, "a", "b">>}

ThreeTables ==
    <<[table_type |-> "rent_schedule", raw_text |-> <<"a">>],
      [table_type |-> "general", raw_text |-> <<"b">>],
      [table_type |-> "rent_schedule",
       raw_text |-> <<"a", SP, "b", SP, "a", SP, "b", SP, "a">>]>>

ManyPartDocs ==
    {[sections |-> <<[name |-> "article i", content |-> t1],
                     [name |-> "premises", content |-> t2]>>,
      data_sheet |-> ds, tables |-> tb] :
        t1 \in ShortTexts \cup SplitTexts, t2 \in ShortTexts \cup SplitTexts,
        ds \in {<<>>, <<[key |-> "a", value |-> "b"]>>},
        tb \in {<<>>, <<[table_type |-> "rent_schedule", raw_text |-> <<"a", SP, "b">>]>>,
                <<[table_type |-> "general", raw_text |-> <<"a">>]>>, ThreeTables}}

InitChunker ==
    /\ \E c \in ChunkerConfigs :
        /\ chunk_size = c.chunk_size
        /\ chunk_overlap = c.chunk_overlap
        /\ min_chunk_size = c.min_chunk_size
    /\ doc \in OneSectionDocs \cup ManyPartDocs
    /\ chunks = <<>>
    /\ chunked = FALSE
    /\ chunk_error = FALSE
    /\ RankerIdle /\ RouterIdle /\ SqlIdle

\* chunker.chunk_document(doc)
ChunkDocument ==
    /\ ~chunked
    /\ chunk_error' = DocumentRaises(doc)
    /\ chunks' = IF DocumentRaises(doc) THEN <<>> ELSE chunk_document(doc)
    /\ chunked' = TRUE
    /\ UNCHANGED <<chunk_size, chunk_overlap, min_chunk_size, doc, ranker_vars, router_vars, sql_vars>>

NextChunker == ChunkDocument

SpecChunker == InitChunker /\ [][NextChunker]_vars

\* Chunker.__init__ stores chunk_size, chunk_overlap and min_chunk_size as
\* given: a Chunker can hold any integers.
AnyChunkerConfigs ==
    [chunk_size : {-1, 0, 2}, chunk_overlap : {1}, min_chunk_size : {-1, 0, 1}]

InitAnyConfig ==
    /\ \E c \in AnyChunkerConfigs :
        /\ chunk_size = c.chunk_size
        /\ chunk_overlap = c.chunk_overlap
        /\ min_chunk_size = c.min_chunk_size
    /\ doc \in ManyPartDocs
    /\ chunks = <<>>
    /\ chunked = FALSE
    /\ chunk_error = FALSE
    /\ RankerIdle /\ RouterIdle /\ SqlIdle

SpecAnyConfig == InitAnyConfig /\ [][NextChunker]_vars

\* Documents with sections that may hold a special token.
TextsWithSpecial == SeqsUpTo(Words \cup {ET}, 2)

DocsWithSpecial ==
    {[sections |-> <<[name |-> "article i", content |-> t1],
                     [name |-> "premises", content |-> t2]>>,
      data_sheet |-> ds, tables |-> tb] :
        t1 \in TextsWithSpecial, t2 \in TextsWithSpecial,
        ds \in {<<>>, <<[key |-> "a", value |-> "b"]>>},
        tb \in {<<>>, <<[table_type |-> "rent_schedule", raw_text |-> <<"a", SP, "b">>]>>}}

InitSpecial ==
    /\ \E c \in ChunkerConfigs :
        /\ chunk_size = c.chunk_size
        /\ chunk_overlap = c.chunk_overlap
        /\ min_chunk_size = c.min_chunk_size
    /\ doc \in DocsWithSpecial
    /\ chunks = <<>>
    /\ chunked = FALSE
    /\ chunk_error = FALSE
    /\ RankerIdle /\ RouterIdle /\ SqlIdle

SpecSpecial == InitSpecial /\ [][NextChunker]_vars

(***************************************************************************)
(* Claims about the chunker.                                               *)
(***************************************************************************)
\* The chunk came out of _chunk_by_sections (not the data sheet, not a table).
IsSectionChunk(c) == c.section_name \in SectionNames

SectionChunkIdx == {i \in 1..Len(chunks) : IsSectionChunk(chunks[i])}

\* The chunks of the section of chunk i.
SameSectionIdx(i) ==
    {j \in SectionChunkIdx : chunks[j].section_name = chunks[i].section_name}

\* C4: every chunk emitted for a named section has at most chunk_size tokens.
C4_TokenBudgetMax ==
    chunked => \A i \in SectionChunkIdx : count_tokens(chunks[i].content) <= chunk_size

\* C5: every chunk emitted for a named section has at least min_chunk_size
\* tokens unless it is the only chunk produced for that section.
C5_TokenBudgetMin ==
    chunked => \A i \in SectionChunkIdx :
        \/ count_tokens(chunks[i].content) >= min_chunk_size
        \/ SameSectionIdx(i) = {i}

\* Chunks i and i+1 are consecutive parts of one split section.
ConsecutiveParts(i) ==
    /\ i \in SectionChunkIdx /\ (i + 1) \in SectionChunkIdx
    /\ chunks[i].section_name = chunks[i+1].section_name
    /\ chunks[i].chunk_part > 0
    /\ chunks[i+1].chunk_part = chunks[i].chunk_part + 1

Min(a, b) == IF a <= b THEN a ELSE b
Max(a, b) == IF a >= b THEN a ELSE b

\* The last chunk_overlap tokens of chunk i are the leading tokens of chunk i+1
\* (all of chunk i when it is shorter than chunk_overlap).
OverlapPreserved(i) ==
    LET k == Min(chunk_overlap, count_tokens(chunks[i].content))
    IN  /\ count_tokens(chunks[i+1].content) >= k
        /\ DecodeLastTokens(chunks[i].content, k) = DecodeFirstTokens(chunks[i+1].content, k)

\* C6: for any two consecutive chunks of one split section, the last
\* chunk_overlap tokens of chunk n are exactly the leading tokens of chunk n+1.
C6_OverlapPreservation ==
    chunked => \A i \in 1..Len(chunks) : ConsecutiveParts(i) => OverlapPreserved(i)

(***************************************************************************)
(* The chunking example of the token budget: one section of 2,400 tokens   *)
(* under the default sizes.  SpecExample.                                  *)
(***************************************************************************)
CHUNK_SIZE == 1000
CHUNK_OVERLAP == 100
MIN_CHUNK_SIZE == 100

\* Where the section may hold a blank line.
ExampleBreaks == {400, 800, 1001, 1200, 1600, 2000, 2300}

\* 2,400 tokens: words (each one token), with a blank line at the positions of B.
ExampleText(B) ==
    [i \in 1..2400 |-> IF i \in B THEN BL ELSE IF i % 2 = 1 THEN "a" ELSE "b"]

InitExample ==
    /\ chunk_size = CHUNK_SIZE
    /\ chunk_overlap = CHUNK_OVERLAP
    /\ min_chunk_size = MIN_CHUNK_SIZE
    /\ \E B \in SUBSET ExampleBreaks :
         doc = [sections |-> <<[name |-> "article i", content |-> ExampleText(B)]>>,
                data_sheet |-> <<>>, tables |-> <<>>]
    /\ chunks = <<>>
    /\ chunked = FALSE
    /\ chunk_error = FALSE
    /\ RankerIdle /\ RouterIdle /\ SqlIdle

SpecExample == InitExample /\ [][NextChunker]_vars

\* Tokens lo..hi of text.
TokenSlice(text, lo, hi) == DecodeLastTokens(DecodeFirstTokens(text, hi), hi - lo + 1)

\* C7: the 2,400-token section gives exactly 3 chunks of at most 1000 tokens
\* each, tokens 901-1000 of chunk 1 being tokens 1-100 of chunk 2, whatever
\* the division into paragraphs.
C7_ExampleThreeChunks ==
    chunked =>
        /\ Len(chunks) = 3
        /\ \A i \in 1..Len(chunks) : count_tokens(chunks[i].content) <= 1000
        /\ count_tokens(chunks[1].content) >= 1000
        /\ TokenSlice(chunks[1].content, 901, 1000) = DecodeFirstTokens(chunks[2].content, 100)

(***************************************************************************)
(* ChromaStore and HybridRanker: SpecRanker.                               *)
(*                                                                         *)
(* A row of the collection is [id, document, metadata]; ids are uuid4 and  *)
(* never handed out twice.  The embedding distances and the BM25Okapi      *)
(* scores depend on the query text through the embedder and the scorer,    *)
(* which are outside the repository: a search draws any ranking of the     *)
(* rows and any score of each indexed row.                                 *)
(***************************************************************************)
VECTOR_SEARCH_K == 20
BM25_SEARCH_K == 20
FINAL_RESULTS_K == 10
RRF_K == 60
VECTOR_WEIGHT == 6      \* 0.6, in tenths
BM25_WEIGHT == 4        \* 0.4, in tenths

\* HybridRanker.__init__: the defaults, and equal weights with short lists.
RankerConfigs ==
    {[vector_k |-> VECTOR_SEARCH_K, bm25_k |-> BM25_SEARCH_K, final_k |-> FINAL_RESULTS_K,
      rrf_k |-> RRF_K, vector_weight |-> VECTOR_WEIGHT, bm25_weight |-> BM25_WEIGHT],
     [vector_k |-> 2, bm25_k |-> 2, final_k |-> 1,
      rrf_k |-> RRF_K, vector_weight |-> 5, bm25_weight |-> 5]}

\* The flat metadata of a stored chunk, and the filters of a search
\* (<<>>: where is None).
Metadatas == {[tenant_name |-> "A"], [tenant_name |-> "B", chunk_part |-> 1]}
Wheres == {<<>>, [tenant_name |-> "A"], [chunk_part |-> 1]}
\* n_results as handed to search; -1 stands for None.
NResults == {-1, 0, 2}

\* BM25Okapi.get_scores.  The score of a document is a sum of idf * tf terms,
\* and idf = log(N - n + 0.5) - log(n + 0.5) is positive only for a term in
\* fewer than half of the N documents (a negative idf becomes 0.25 times the
\* mean idf): an index of one or two documents gives no positive score.
\* Scores that are zero or negative are written 0.
ScoreVectors(n_docs) ==
    IF n_docs < 3 THEN {[i \in 1..n_docs |-> 0]} ELSE [1..n_docs -> {0, 1, 2}]

Document(id) == <<"text", id>>

Ids(rows) == {rows[i].id : i \in 1..Len(rows)}

\* list[:k]
Take(list, k) == SubSeq(list, 1, Min(k, Len(list)))

\* A sort that is not stable: an entry goes before the entries of equal key.
RECURSIVE InsertDescUnstable(_, _)
InsertDescUnstable(sorted, x) ==
    IF sorted = <<>> THEN <<x>>
    ELSE IF Head(sorted).key > x.key
         THEN <<Head(sorted)>> \o InsertDescUnstable(Tail(sorted), x)
    ELSE <<x>> \o sorted

\* sorted(list, key=..., reverse=True): descending, equal keys keep their order.
RECURSIVE InsertDesc(_, _)
InsertDesc(sorted, x) ==
    IF sorted = <<>> THEN <<x>>
    ELSE IF Head(sorted).key >= x.key THEN <<Head(sorted)>> \o InsertDesc(Tail(sorted), x)
    ELSE <<x>> \o sorted

RECURSIVE SortDesc(_)
SortDesc(list) ==
    IF list = <<>> THEN <<>>
    ELSE InsertDesc(SortDesc(SubSeq(list, 1, Len(list) - 1)), list[Len(list)])

\* The filter of collection.query(where=...): key present and value equal.
MatchesWhere(metadata, where) ==
    \A key \in DOMAIN where : key \in DOMAIN metadata /\ metadata[key] = where[key]

\* ChromaStore.add_chunks
AddedRows(batch, first_id) ==
    [i \in 1..Len(batch) |->
        [id |-> first_id + i, document |-> Document(first_id + i), metadata |-> batch[i]]]

\* ChromaStore.search: the n_results nearest rows that pass where, nearest
\* first; the distance of a row is written as its place in that order.
VectorOutcomes(rows, where, n_results) ==
    LET pass == SelectSeq(rows, LAMBDA r : MatchesWhere(r.metadata, where))
        n == Len(pass)
        orders == {f \in [1..n -> 1..n] : \A i, j \in 1..n : f[i] = f[j] => i = j}
    IN  {Take([i \in 1..n |-> [id |-> pass[f[i]].id, document |-> pass[f[i]].document,
                               metadata |-> pass[f[i]].metadata, distance |-> i]],
              n_results) : f \in orders}

\* HybridRanker._vector_search
_vector_search(where) == VectorOutcomes(store, where, rk.vector_k)

\* A lexical search that sorts ascending (reverse=True left out).
Bm25SearchAscending(ids, docs, metadatas, scores) ==
    LET indexed_scores == [i \in 1..Len(ids) |-> [idx |-> i, key |-> 0 - scores[i]]]
        top_k == Take(SortDesc(indexed_scores), rk.bm25_k)
        kept == SelectSeq(top_k, LAMBDA e : e.key < 0)
    IN  [i \in 1..Len(kept) |->
            [id |-> ids[kept[i].idx], document |-> docs[kept[i].idx],
             metadata |-> metadatas[kept[i].idx], score |-> 0 - kept[i].key]]

\* HybridRanker._bm25_search after the index is there: scores[i] is the score
\* get_scores gave document i of the index.
_bm25_search(ids, docs, metadatas, scores) ==
    LET indexed_scores == [i \in 1..Len(ids) |-> [idx |-> i, key |-> scores[i]]]
        top_k == Take(SortDesc(indexed_scores), rk.bm25_k)
        kept == SelectSeq(top_k, LAMBDA e : e.key > 0)
    IN  [i \in 1..Len(kept) |->
            [id |-> ids[kept[i].idx], document |-> docs[kept[i].idx],
             metadata |-> metadatas[kept[i].idx], score |-> kept[i].key]]

\* The lists _bm25_search can return for some query: one per score vector.
Bm25Outcomes(ids, docs, metadatas) ==
    {_bm25_search(ids, docs, metadatas, scores) : scores \in ScoreVectors(Len(ids))}

\* The place of id in list (0: not in it).
RankIn(list, id) ==
    IF \E i \in 1..Len(list) : list[i].id = id
    THEN CHOOSE i \in 1..Len(list) : list[i].id = id
    ELSE 0

\* Scores are kept as integers: score * 10 * RankScale, where RankScale is the
\* product of rrf_k + rank over the ranks a list can hold.
RECURSIVE RankScaleTo(_, _)
RankScaleTo(rrf_k, n) == IF n = 0 THEN 1 ELSE (rrf_k + n) * RankScaleTo(rrf_k, n - 1)

RankScale == RankScaleTo(rk.rrf_k, MaxChunks)

\* The contribution of a rank counted from 0 instead of 1.
RrfScoreZeroIndexed(weight, rank) == weight * (RankScale \div (rk.rrf_k + rank - 1))

\* weight * (1.0 / (self.rrf_k + rank))
RrfScore(weight, rank) == weight * (RankScale \div (rk.rrf_k + rank))

\* The ids of both lists in the order the dicts of _reciprocal_rank_fusion
\* first see them: the vector list, then the rest of the BM25 list.
DiscoveryOrder(vector_results, bm25_results) ==
    LET rest == SelectSeq(bm25_results, LAMBDA b : RankIn(vector_results, b.id) = 0)
    IN  [i \in 1..Len(vector_results) |-> vector_results[i].id]
        \o [i \in 1..Len(rest) |-> rest[i].id]

\* A fusion that blends the raw BM25 score into the fused score.
ReciprocalRankFusionBlending(vector_results, bm25_results) ==
    LET ids == DiscoveryOrder(vector_results, bm25_results)
        entry(id) ==
            LET vr == RankIn(vector_results, id)
                br == RankIn(bm25_results, id)
                score == (IF vr > 0 THEN RrfScore(rk.vector_weight, vr) ELSE 0)
                         + (IF br > 0
                            THEN RrfScore(rk.bm25_weight, br) + bm25_results[br].score
                            ELSE 0)
            IN  [key |-> score,
                 result |->
                    [chunk_id |-> id,
                     content |-> IF br > 0 THEN bm25_results[br].document
                                 ELSE vector_results[vr].document,
                     metadata |-> IF br > 0 THEN bm25_results[br].metadata
                                  ELSE vector_results[vr].metadata,
                     score |-> score, vector_rank |-> vr, bm25_rank |-> br]]
        sorted_ids == SortDesc([i \in 1..Len(ids) |-> entry(ids[i])])
    IN  [i \in 1..Len(sorted_ids) |-> sorted_ids[i].result]

\* A fusion that overwrites the score of a chunk of both lists with its BM25
\* contribution (the second loop without scores.get(chunk_id, 0) +).
ReciprocalRankFusionOverwriting(vector_results, bm25_results) ==
    LET ids == DiscoveryOrder(vector_results, bm25_results)
        entry(id) ==
            LET vr == RankIn(vector_results, id)
                br == RankIn(bm25_results, id)
                score == IF br > 0 THEN RrfScore(rk.bm25_weight, br)
                         ELSE RrfScore(rk.vector_weight, vr)
            IN  [key |-> score,
                 result |->
                    [chunk_id |-> id,
                     content |-> IF br > 0 THEN bm25_results[br].document
                                 ELSE vector_results[vr].document,
                     metadata |-> IF br > 0 THEN bm25_results[br].metadata
                                  ELSE vector_results[vr].metadata,
                     score |-> score, vector_rank |-> vr, bm25_rank |-> br]]
        sorted_ids == SortDesc([i \in 1..Len(ids) |-> entry(ids[i])])
    IN  [i \in 1..Len(sorted_ids) |-> sorted_ids[i].result]

\* HybridRanker._reciprocal_rank_fusion.  A rank of 0 stands for None.
_reciprocal_rank_fusion(vector_results, bm25_results) ==
    LET ids == DiscoveryOrder(vector_results, bm25_results)
        entry(id) ==
            LET vr == RankIn(vector_results, id)
                br == RankIn(bm25_results, id)
                score == (IF vr > 0 THEN RrfScore(rk.vector_weight, vr) ELSE 0)
                         + (IF br > 0 THEN RrfScore(rk.bm25_weight, br) ELSE 0)
            IN  [key |-> score,
                 result |->
                    [chunk_id |-> id,
                     content |-> IF br > 0 THEN bm25_results[br].document
                                 ELSE vector_results[vr].document,
                     metadata |-> IF br > 0 THEN bm25_results[br].metadata
                                  ELSE vector_results[vr].metadata,
                     score |-> score, vector_rank |-> vr, bm25_rank |-> br]]
        sorted_ids == SortDesc([i \in 1..Len(ids) |-> entry(ids[i])])
    IN  [i \in 1..Len(sorted_ids) |-> sorted_ids[i].result]

\* A filter that lets a result through when its metadata lacks the key.
ApplyMetadataFilterLenient(results, where) ==
    SelectSeq(results, LAMBDA result :
        \A key \in DOMAIN where :
            key \in DOMAIN result.metadata => result.metadata[key] = where[key])

\* HybridRanker._apply_metadata_filter
_apply_metadata_filter(results, where) ==
    SelectSeq(results, LAMBDA result :
        \A key \in DOMAIN where :
            key \in DOMAIN result.metadata /\ result.metadata[key] = where[key])

\* The rows collection.get() returns, as the three lists of get_all_chunks.
StoreIds == [i \in 1..Len(store) |-> store[i].id]
StoreDocs == [i \in 1..Len(store) |-> store[i].document]
StoreMetadatas == [i \in 1..Len(store) |-> store[i].metadata]

\* BM25Okapi(tokenized_docs) divides by the number of documents: on an empty
\* corpus it raises ZeroDivisionError, after _build_bm25_index has set the
\* three lists and before it sets _bm25_index.
BuildRaises == store = <<>>

\* HybridRanker._build_bm25_index
_build_bm25_index ==
    /\ bm25_ids' = StoreIds
    /\ bm25_docs' = StoreDocs
    /\ bm25_metadatas' = StoreMetadatas
    /\ bm25_index' = IF BuildRaises THEN "None" ELSE "built"
    /\ bm25_corpus' = IF BuildRaises THEN <<>> ELSE StoreDocs

InitRanker ==
    /\ ChunkerIdle /\ RouterIdle /\ SqlIdle
    /\ store = <<>>
    /\ next_id = 0
    /\ rk \in RankerConfigs
    /\ bm25_index = "None"
    /\ bm25_ids = <<>>
    /\ bm25_docs = <<>>
    /\ bm25_metadatas = <<>>
    /\ bm25_corpus = <<>>
    /\ ret = NoCall
    /\ threads = IdleThreads

\* store.add_chunks(batch)
AddChunks ==
    /\ ret = NoCall
    /\ \E batch \in SeqsUpTo(Metadatas, MaxChunks - next_id) :
        /\ store' = store \o AddedRows(batch, next_id)
        /\ next_id' = next_id + Len(batch)
    /\ UNCHANGED <<rk, bm25_index, bm25_ids, bm25_docs, bm25_metadatas, bm25_corpus, ret,
                   threads, chunker_vars, router_vars, sql_vars>>

\* store.delete_all()
DeleteAll ==
    /\ ret = NoCall
    /\ store' = <<>>
    /\ UNCHANGED <<next_id, rk, bm25_index, bm25_ids, bm25_docs, bm25_metadatas, bm25_corpus,
                   ret, threads, chunker_vars, router_vars, sql_vars>>

\* ranker.refresh_bm25_index()
RefreshBm25Index ==
    /\ ret = NoCall
    /\ _build_bm25_index
    /\ ret' = IF BuildRaises
              THEN [status |-> "raised", op |-> "refresh_bm25_index", failed |-> "bm25"]
              ELSE NoCall
    /\ UNCHANGED <<store, next_id, rk, threads, chunker_vars, router_vars, sql_vars>>

\* A search that cuts the fused list to n_results first and filters what is left.
SearchReturnTruncateFirst(n_results, where, vector_results, bm25_results) ==
    LET n == IF n_results \in {-1, 0} THEN rk.final_k ELSE n_results
        combined == _reciprocal_rank_fusion(vector_results, bm25_results)
        cut == Take(combined, n)
    IN  [status |-> "ok", op |-> "search", n_results |-> n_results, where |-> where,
         vector_results |-> vector_results, bm25_results |-> bm25_results,
         combined |-> combined,
         results |-> IF DOMAIN where # {} THEN _apply_metadata_filter(cut, where) ELSE cut]

\* What search returns once both lists are there.
SearchReturn(n_results, where, vector_results, bm25_results) ==
    LET n == IF n_results \in {-1, 0} THEN rk.final_k ELSE n_results
        combined == _reciprocal_rank_fusion(vector_results, bm25_results)
        filtered == IF DOMAIN where # {}
                    THEN _apply_metadata_filter(combined, where)
                    ELSE combined
    IN  [status |-> "ok", op |-> "search", n_results |-> n_results, where |-> where,
         vector_results |-> vector_results, bm25_results |-> bm25_results,
         combined |-> combined, results |-> Take(filtered, n)]

\* ranker.search(query, n_results, where)
Search ==
    /\ ret = NoCall
    /\ \E n_results \in NResults, where \in Wheres :
        \/ \* store.search raises (the embedding call or the collection query)
           /\ ret' = [status |-> "raised", op |-> "search", failed |-> "vector",
                      n_results |-> n_results, where |-> where]
           /\ UNCHANGED <<bm25_index, bm25_ids, bm25_docs, bm25_metadatas, bm25_corpus>>
        \/ \* the lazy build of the index raises
           /\ bm25_index = "None" /\ BuildRaises
           /\ _build_bm25_index
           /\ ret' = [status |-> "raised", op |-> "search", failed |-> "bm25",
                      n_results |-> n_results, where |-> where]
        \/ \E vector_results \in _vector_search(where) :
            /\ ~(bm25_index = "None" /\ BuildRaises)
            /\ IF bm25_index = "None"
               THEN _build_bm25_index
               ELSE UNCHANGED <<bm25_index, bm25_ids, bm25_docs, bm25_metadatas, bm25_corpus>>
            /\ \E bm25_results \in Bm25Outcomes(bm25_ids', bm25_docs', bm25_metadatas') :
                ret' = SearchReturn(n_results, where, vector_results, bm25_results)
    /\ UNCHANGED <<store, next_id, rk, threads, chunker_vars, router_vars, sql_vars>>

\* n_results as handed to keyword_only_search.
KeywordNResults == {1, 10}

\* What keyword_only_search returns: the first n_results of the BM25 list,
\* each with its BM25 score and its place in the list.
KeywordReturn(n_results, bm25_results) ==
    LET top == Take(bm25_results, n_results)
    IN  [status |-> "ok", op |-> "keyword_only_search", n_results |-> n_results,
         bm25_results |-> bm25_results,
         results |-> [i \in 1..Len(top) |->
                        [chunk_id |-> top[i].id, content |-> top[i].document,
                         metadata |-> top[i].metadata, score |-> top[i].score,
                         vector_rank |-> 0, bm25_rank |-> i]]]

\* ranker.keyword_only_search(query, n_results)
KeywordOnlySearch ==
    /\ ret = NoCall
    /\ \E n_results \in KeywordNResults :
        \/ \* the lazy build of the index raises
           /\ bm25_index = "None" /\ BuildRaises
           /\ _build_bm25_index
           /\ ret' = [status |-> "raised", op |-> "keyword_only_search", failed |-> "bm25",
                      n_results |-> n_results]
        \/ /\ ~(bm25_index = "None" /\ BuildRaises)
           /\ IF bm25_index = "None"
              THEN _build_bm25_index
              ELSE UNCHANGED <<bm25_index, bm25_ids, bm25_docs, bm25_metadatas, bm25_corpus>>
           /\ \E bm25_results \in Bm25Outcomes(bm25_ids', bm25_docs', bm25_metadatas') :
                ret' = KeywordReturn(n_results, bm25_results)
    /\ UNCHANGED <<store, next_id, rk, threads, chunker_vars, router_vars, sql_vars>>

\* The caller takes what the call returned or raised.
TakeResult ==
    /\ ret # NoCall
    /\ ret' = NoCall
    /\ UNCHANGED <<store, next_id, rk, bm25_index, bm25_ids, bm25_docs, bm25_metadatas,
                   bm25_corpus, threads, chunker_vars, router_vars, sql_vars>>

NextRanker ==
    AddChunks \/ DeleteAll \/ RefreshBm25Index \/ Search \/ KeywordOnlySearch \/ TakeResult

SpecRanker == InitRanker /\ [][NextRanker]_vars

\* What vector_only_search returns: the first n_results rows of the vector
\* list; the score 1 / (1 + distance) is written <<1, 1 + distance>>.
VectorOnlyReturn(n_results, vector_results) ==
    LET top == Take(vector_results, n_results)
    IN  [i \in 1..Len(top) |->
            [chunk_id |-> top[i].id, content |-> top[i].document,
             metadata |-> top[i].metadata, score |-> <<1, 1 + top[i].distance>>,
             vector_rank |-> i, bm25_rank |-> 0]]

\* tenant_filter and search_type as handed to search_only ("None": no filter).
TenantFilters == {"None", "A", "B"}
SearchTypes == {"hybrid", "vector", "keyword"}

\* The outcome of a search_only call.
EngineReturn(status, n_results, tenant_filter, search_type, results) ==
    [status |-> status, op |-> "search_only", n_results |-> n_results,
     tenant_filter |-> tenant_filter, search_type |-> search_type, results |-> results]

\* engine.search_only(query, n_results, tenant_filter, search_type)
SearchOnly ==
    /\ ret = NoCall
    /\ \E n_results \in KeywordNResults, tenant_filter \in TenantFilters, search_type \in SearchTypes :
        LET where == IF tenant_filter # "None" THEN [tenant_name |-> tenant_filter] ELSE <<>>
        IN  \/ \* store.search raises
               /\ search_type # "keyword"
               /\ ret' = EngineReturn("raised", n_results, tenant_filter, search_type, <<>>)
               /\ UNCHANGED <<bm25_index, bm25_ids, bm25_docs, bm25_metadatas, bm25_corpus>>
            \/ \* ranker.vector_only_search(query, n_results, where)
               /\ search_type = "vector"
               /\ \E vector_results \in _vector_search(where) :
                    ret' = EngineReturn("ok", n_results, tenant_filter, search_type,
                                        VectorOnlyReturn(n_results, vector_results))
               /\ UNCHANGED <<bm25_index, bm25_ids, bm25_docs, bm25_metadatas, bm25_corpus>>
            \/ \* the lazy build of the index raises
               /\ search_type # "vector"
               /\ bm25_index = "None" /\ BuildRaises
               /\ _build_bm25_index
               /\ ret' = EngineReturn("raised", n_results, tenant_filter, search_type, <<>>)
            \/ \* ranker.keyword_only_search(query, n_results): where is not passed on
               /\ search_type = "keyword"
               /\ ~(bm25_index = "None" /\ BuildRaises)
               /\ IF bm25_index = "None"
                  THEN _build_bm25_index
                  ELSE UNCHANGED <<bm25_index, bm25_ids, bm25_docs, bm25_metadatas, bm25_corpus>>
               /\ \E bm25_results \in Bm25Outcomes(bm25_ids', bm25_docs', bm25_metadatas') :
                    ret' = EngineReturn("ok", n_results, tenant_filter, search_type,
                                        KeywordReturn(n_results, bm25_results).results)
            \/ \* ranker.search(query, n_results, where)
               /\ search_type = "hybrid"
               /\ ~(bm25_index = "None" /\ BuildRaises)
               /\ IF bm25_index = "None"
                  THEN _build_bm25_index
                  ELSE UNCHANGED <<bm25_index, bm25_ids, bm25_docs, bm25_metadatas, bm25_corpus>>
               /\ \E vector_results \in _vector_search(where) :
                    \E bm25_results \in Bm25Outcomes(bm25_ids', bm25_docs', bm25_metadatas') :
                        ret' = EngineReturn("ok", n_results, tenant_filter, search_type,
                                    SearchReturn(n_results, where, vector_results,
                                                 bm25_results).results)
    /\ UNCHANGED <<store, next_id, rk, threads, chunker_vars, router_vars, sql_vars>>

NextEngine == AddChunks \/ DeleteAll \/ RefreshBm25Index \/ SearchOnly \/ TakeResult

SpecEngine == InitRanker /\ [][NextEngine]_vars

(***************************************************************************)
(* Several request threads on one HybridRanker.  The ranker takes no lock: *)
(* a thread can be switched out between any two reads or writes of the     *)
(* ranker's fields, so every such read or write is a step of its own.      *)
(* The store is changed only while no thread is inside the ranker.         *)
(***************************************************************************)

\* A query is the score it gives each document it can meet.
ThreadQueries == {[id \in 1..MaxChunks |-> id % 3], [id \in 1..MaxChunks |-> 1]}

\* BM25Okapi.get_scores over the corpus the index object was built on.
GetScores(query, corpus) ==
    [i \in 1..Len(corpus) |-> IF Len(corpus) < 3 THEN 0 ELSE query[corpus[i][2]]]

\* _bm25_search, lines 164-167 and the test of line 171: the places of the
\* index the loop will read, best first.
TopK(scores) ==
    LET indexed_scores == [i \in 1..Len(scores) |-> [idx |-> i, key |-> scores[i]]]
    IN  SelectSeq(Take(SortDesc(indexed_scores), rk.bm25_k), LAMBDA e : e.key > 0)

AllIdle == \A t \in ThreadIds : threads[t].pc = "idle"

Raised(t, error) == threads' = [threads EXCEPT ![t].pc = "done", ![t].status = error]

\* A thread enters _bm25_search.  `old` is the index in place at that moment,
\* if there is one.
QStart(t) ==
    /\ ret = NoCall
    /\ threads[t].pc = "idle"
    /\ \E query \in ThreadQueries :
        threads' = [threads EXCEPT ![t] =
            [pc |-> "check", caller |-> "_bm25_search", query |-> query, status |-> "running",
             old |-> IF bm25_index = "built"
                     THEN <<[ids |-> bm25_ids, docs |-> bm25_docs,
                             metadatas |-> bm25_metadatas, corpus |-> bm25_corpus]>>
                     ELSE <<>>,
             tokenized_docs |-> <<>>, top_k |-> <<>>, k |-> 0, row |-> <<>>,
             results |-> <<>>]]
    /\ UNCHANGED <<store, next_id, rk, bm25_index, bm25_ids, bm25_docs, bm25_metadatas,
                   bm25_corpus, ret, chunker_vars, router_vars, sql_vars>>

\* if self._bm25_index is None: self._build_bm25_index()
QCheck(t) ==
    /\ threads[t].pc = "check"
    /\ threads' = [threads EXCEPT ![t].pc = IF bm25_index = "None" THEN "set_ids"
                                            ELSE "get_scores"]
    /\ UNCHANGED <<store, next_id, rk, bm25_index, bm25_ids, bm25_docs, bm25_metadatas,
                   bm25_corpus, ret, chunker_vars, router_vars, sql_vars>>

\* self._bm25_ids = all_data["ids"]
BSetIds(t) ==
    /\ threads[t].pc = "set_ids"
    /\ bm25_ids' = StoreIds
    /\ threads' = [threads EXCEPT ![t].pc = "set_docs"]
    /\ UNCHANGED <<store, next_id, rk, bm25_index, bm25_docs, bm25_metadatas, bm25_corpus,
                   ret, chunker_vars, router_vars, sql_vars>>

\* self._bm25_docs = all_data["documents"]
BSetDocs(t) ==
    /\ threads[t].pc = "set_docs"
    /\ bm25_docs' = StoreDocs
    /\ threads' = [threads EXCEPT ![t].pc = "set_metadatas"]
    /\ UNCHANGED <<store, next_id, rk, bm25_index, bm25_ids, bm25_metadatas, bm25_corpus,
                   ret, chunker_vars, router_vars, sql_vars>>

\* self._bm25_metadatas = all_data["metadatas"]
BSetMetadatas(t) ==
    /\ threads[t].pc = "set_metadatas"
    /\ bm25_metadatas' = StoreMetadatas
    /\ threads' = [threads EXCEPT ![t].pc = "tokenize"]
    /\ UNCHANGED <<store, next_id, rk, bm25_index, bm25_ids, bm25_docs, bm25_corpus,
                   ret, chunker_vars, router_vars, sql_vars>>

\* tokenized_docs = [self._tokenize(doc) for doc in self._bm25_docs]
BTokenize(t) ==
    /\ threads[t].pc = "tokenize"
    /\ threads' = [threads EXCEPT ![t].pc = "set_index", ![t].tokenized_docs = bm25_docs]
    /\ UNCHANGED <<store, next_id, rk, bm25_index, bm25_ids, bm25_docs, bm25_metadatas,
                   bm25_corpus, ret, chunker_vars, router_vars, sql_vars>>

\* self._bm25_index = BM25Okapi(tokenized_docs)
BSetIndex(t) ==
    /\ threads[t].pc = "set_index"
    /\ IF threads[t].tokenized_docs = <<>>
       THEN /\ Raised(t, "ZeroDivisionError")
            /\ UNCHANGED <<bm25_index, bm25_corpus>>
       ELSE /\ bm25_index' = "built"
            /\ bm25_corpus' = threads[t].tokenized_docs
            /\ threads' = [threads EXCEPT ![t].pc =
                              IF threads[t].caller = "_bm25_search" THEN "get_scores"
                              ELSE "done",
                           ![t].status =
                              IF threads[t].caller = "_bm25_search" THEN "running"
                              ELSE "returned"]
    /\ UNCHANGED <<store, next_id, rk, bm25_ids, bm25_docs, bm25_metadatas, ret,
                   chunker_vars, router_vars, sql_vars>>

\* scores = self._bm25_index.get_scores(query_tokens), then the sort and the
\* slice, which touch locals only.
QGetScores(t) ==
    /\ threads[t].pc = "get_scores"
    /\ IF bm25_index = "None"
       THEN Raised(t, "AttributeError")
       ELSE LET top_k == TopK(GetScores(threads[t].query, bm25_corpus))
            IN  threads' = [threads EXCEPT
                    ![t].top_k = top_k, ![t].k = 1,
                    ![t].pc = IF top_k = <<>> THEN "done" ELSE "read_id",
                    ![t].status = IF top_k = <<>> THEN "returned" ELSE "running"]
    /\ UNCHANGED <<store, next_id, rk, bm25_index, bm25_ids, bm25_docs, bm25_metadatas,
                   bm25_corpus, ret, chunker_vars, router_vars, sql_vars>>

\* self._bm25_ids[idx]
QReadId(t) ==
    /\ threads[t].pc = "read_id"
    /\ LET idx == threads[t].top_k[threads[t].k].idx
       IN  IF idx > Len(bm25_ids)
           THEN Raised(t, "IndexError")
           ELSE threads' = [threads EXCEPT ![t].pc = "read_doc",
                                           ![t].row = <<bm25_ids[idx]>>]
    /\ UNCHANGED <<store, next_id, rk, bm25_index, bm25_ids, bm25_docs, bm25_metadatas,
                   bm25_corpus, ret, chunker_vars, router_vars, sql_vars>>

\* self._bm25_docs[idx]
QReadDoc(t) ==
    /\ threads[t].pc = "read_doc"
    /\ LET idx == threads[t].top_k[threads[t].k].idx
       IN  IF idx > Len(bm25_docs)
           THEN Raised(t, "IndexError")
           ELSE threads' = [threads EXCEPT ![t].pc = "read_metadata",
                                           ![t].row = Append(@, bm25_docs[idx])]
    /\ UNCHANGED <<store, next_id, rk, bm25_index, bm25_ids, bm25_docs, bm25_metadatas,
                   bm25_corpus, ret, chunker_vars, router_vars, sql_vars>>

\* self._bm25_metadatas[idx], results.append(...), the next turn of the loop
\* or the return.
QReadMetadata(t) ==
    /\ threads[t].pc = "read_metadata"
    /\ LET th == threads[t]
           idx == th.top_k[th.k].idx
           last == th.k = Len(th.top_k)
       IN  IF idx > Len(bm25_metadatas)
           THEN Raised(t, "IndexError")
           ELSE threads' = [threads EXCEPT
                   ![t].results = Append(@, [id |-> th.row[1], document |-> th.row[2],
                                             metadata |-> bm25_metadatas[idx],
                                             score |-> th.top_k[th.k].key]),
                   ![t].row = <<>>, ![t].k = @ + 1,
                   ![t].pc = IF last THEN "done" ELSE "read_id",
                   ![t].status = IF last THEN "returned" ELSE "running"]
    /\ UNCHANGED <<store, next_id, rk, bm25_index, bm25_ids, bm25_docs, bm25_metadatas,
                   bm25_corpus, ret, chunker_vars, router_vars, sql_vars>>

\* The caller takes what the thread returned or raised.
ThreadFinish(t) ==
    /\ threads[t].pc = "done"
    /\ threads' = [threads EXCEPT ![t] = IdleThread]
    /\ UNCHANGED <<store, next_id, rk, bm25_index, bm25_ids, bm25_docs, bm25_metadatas,
                   bm25_corpus, ret, chunker_vars, router_vars, sql_vars>>

\* A thread enters refresh_bm25_index.
RStart(t) ==
    /\ ret = NoCall
    /\ threads[t].pc = "idle"
    /\ threads' = [threads EXCEPT ![t] =
            [pc |-> "set_none", caller |-> "refresh_bm25_index", status |-> "running",
             tokenized_docs |-> <<>>]]
    /\ UNCHANGED <<store, next_id, rk, bm25_index, bm25_ids, bm25_docs, bm25_metadatas,
                   bm25_corpus, ret, chunker_vars, router_vars, sql_vars>>

\* self._bm25_index = None
RSetNone(t) ==
    /\ threads[t].pc = "set_none"
    /\ bm25_index' = "None"
    /\ bm25_corpus' = <<>>
    /\ threads' = [threads EXCEPT ![t].pc = "set_ids"]
    /\ UNCHANGED <<store, next_id, rk, bm25_ids, bm25_docs, bm25_metadatas, ret,
                   chunker_vars, router_vars, sql_vars>>

\* The store and the index change between requests.
QuietAddChunks == AllIdle /\ AddChunks
QuietDeleteAll == AllIdle /\ DeleteAll
QuietRefresh == AllIdle /\ RefreshBm25Index
QuietTakeResult == AllIdle /\ TakeResult

BuildStep(t) == BSetIds(t) \/ BSetDocs(t) \/ BSetMetadatas(t) \/ BTokenize(t) \/ BSetIndex(t)

QueryStep(t) ==
    \/ QStart(t) \/ QCheck(t) \/ BuildStep(t) \/ QGetScores(t)
    \/ QReadId(t) \/ QReadDoc(t) \/ QReadMetadata(t) \/ ThreadFinish(t)

RefreshStep(t) == RStart(t) \/ RSetNone(t) \/ BuildStep(t) \/ ThreadFinish(t)

\* Queries racing one another; the store and the index change only between them.
NextQueries ==
    \/ QuietAddChunks \/ QuietDeleteAll \/ QuietRefresh \/ QuietTakeResult
    \/ \E t \in QueryThreads : QueryStep(t)

SpecQueries == InitRanker /\ [][NextQueries]_vars

\* One query racing the refresh that follows an ingestion.
NextRebuild ==
    \/ QuietAddChunks \/ QuietDeleteAll
    \/ QueryStep("q1")
    \/ RefreshStep(RefreshThread)

SpecRebuild == InitRanker /\ [][NextRebuild]_vars

(***************************************************************************)
(* Claims about the store and the ranker.                                  *)
(***************************************************************************)
SearchReturned == ret.status = "ok" /\ ret.op = "search"

SetOf(list) == {list[i] : i \in 1..Len(list)}

\* C1: at every search the chunk set ranked by the BM25 index is the chunk
\* set in the store that the vector search reads.
C1_IndexMatchesStore ==
    SearchReturned => SetOf(bm25_ids) = Ids(store)

\* C2: a search with a non-empty metadata filter returns no result whose
\* metadata lacks a filter key or holds another value for it.
C2_FilterCorrectness ==
    (SearchReturned /\ DOMAIN ret.where # {}) =>
        \A i \in 1..Len(ret.results) : \A key \in DOMAIN ret.where :
            /\ key \in DOMAIN ret.results[i].metadata
            /\ ret.results[i].metadata[key] = ret.where[key]

\* A filtered search whose lexical list held a row the filter rejects, and
\* which returned something.
C2_Witness ==
    /\ SearchReturned /\ DOMAIN ret.where # {}
    /\ \E i \in 1..Len(ret.bm25_results) : ~MatchesWhere(ret.bm25_results[i].metadata, ret.where)
    /\ ret.results # <<>>

\* C3: when the vector sub-search raises, search still returns (the
\* lexical-only ranking) instead of raising.
C3_DegradesToLexical ==
    (ret.status = "raised" /\ ret.op = "search") => ret.failed # "vector"

\* The score the claim gives a chunk, from its places in the two lists.
ExpectedScore(vector_results, bm25_results, id) ==
    LET rv == RankIn(vector_results, id)
        rb == RankIn(bm25_results, id)
    IN  (IF rv > 0 THEN rk.vector_weight * (RankScale \div (rk.rrf_k + rv)) ELSE 0)
        + (IF rb > 0 THEN rk.bm25_weight * (RankScale \div (rk.rrf_k + rb)) ELSE 0)

\* C8: the fused score of a chunk is vector_weight/(rrf_k + rv) plus
\* bm25_weight/(rrf_k + rb) over the lists that hold it; every chunk id is in
\* the output exactly once, with exactly those ranks.
C8_FusedScore ==
    SearchReturned =>
        LET V == ret.vector_results
            B == ret.bm25_results
            F == ret.combined
        IN  /\ {F[i].chunk_id : i \in 1..Len(F)} = Ids(V) \cup Ids(B)
            /\ Len(F) = Cardinality(Ids(V) \cup Ids(B))
            /\ \A i \in 1..Len(F) :
                /\ F[i].score = ExpectedScore(V, B, F[i].chunk_id)
                /\ F[i].vector_rank = RankIn(V, F[i].chunk_id)
                /\ F[i].bm25_rank = RankIn(B, F[i].chunk_id)

\* A fusion of a chunk held by both lists at different ranks and a chunk held
\* by one list only.
C8_Witness ==
    /\ SearchReturned
    /\ \E i \in 1..Len(ret.combined) :
        /\ ret.combined[i].vector_rank > 0 /\ ret.combined[i].bm25_rank > 0
        /\ ret.combined[i].vector_rank # ret.combined[i].bm25_rank
    /\ \E i \in 1..Len(ret.combined) :
        (ret.combined[i].vector_rank = 0) # (ret.combined[i].bm25_rank = 0)

\* C9: a chunk ranked 1st in both lists is fused at or above every other chunk.
C9_FusionMonotonicity ==
    (SearchReturned /\ ret.vector_results # <<>> /\ ret.bm25_results # <<>>
        /\ ret.vector_results[1].id = ret.bm25_results[1].id) =>
        ret.combined[1].chunk_id = ret.vector_results[1].id

C9_Witness ==
    /\ SearchReturned /\ ret.vector_results # <<>> /\ ret.bm25_results # <<>>
    /\ ret.vector_results[1].id = ret.bm25_results[1].id
    /\ Len(ret.combined) >= 2

\* The best (smallest) rank of a fused entry in either list.
BestRank(r) ==
    IF r.vector_rank = 0 THEN r.bm25_rank
    ELSE IF r.bm25_rank = 0 THEN r.vector_rank
    ELSE Min(r.vector_rank, r.bm25_rank)

SortedByScore(F) == \A i, j \in 1..Len(F) : i < j => F[i].score >= F[j].score

\* Entry a is before entry b in the order the lexical list found them; an
\* entry the lexical list does not hold is found after those it holds.
LexicalBefore(a, b) ==
    \/ a.bm25_rank > 0 /\ b.bm25_rank > 0 /\ a.bm25_rank < b.bm25_rank
    \/ a.bm25_rank > 0 /\ b.bm25_rank = 0
    \/ a.bm25_rank = 0 /\ b.bm25_rank = 0

\* C10: the fused list is sorted by score descending; equal scores are
\* ordered by the better best rank first, then by lexical discovery order.
C10_TieBreakByBestRank ==
    SearchReturned =>
        LET F == ret.combined
        IN  /\ SortedByScore(F)
            /\ \A i, j \in 1..Len(F) : (i < j /\ F[i].score = F[j].score) =>
                /\ BestRank(F[i]) <= BestRank(F[j])
                /\ BestRank(F[i]) = BestRank(F[j]) => LexicalBefore(F[i], F[j])

\* The place of an entry in the order _reciprocal_rank_fusion first saw the
\* ids: the vector list, then the lexical list.
DiscoveryIndex(r, V) == IF r.vector_rank > 0 THEN r.vector_rank ELSE Len(V) + r.bm25_rank

\* C10 as amended: the fused list is sorted by score descending; equal scores
\* keep the order of discovery, the vector list first, then the lexical list.
C10_TieBreakByDiscovery ==
    SearchReturned =>
        LET F == ret.combined
        IN  /\ SortedByScore(F)
            /\ \A i, j \in 1..Len(F) : (i < j /\ F[i].score = F[j].score) =>
                DiscoveryIndex(F[i], ret.vector_results) < DiscoveryIndex(F[j], ret.vector_results)

\* Two fused entries with the same score, the second of them better placed in
\* the lexical list.
C10_Witness ==
    /\ SearchReturned
    /\ \E i \in 1..(Len(ret.combined) - 1) :
        /\ ret.combined[i].score = ret.combined[i+1].score
        /\ ret.combined[i+1].bm25_rank > 0
        /\ (ret.combined[i].bm25_rank = 0
            \/ ret.combined[i+1].bm25_rank < ret.combined[i].bm25_rank)

\* ---------------------------------------------------------------------------
\* The lexical search
\* ---------------------------------------------------------------------------

\* The place of a chunk id in the corpus the index was built over.
CorpusIndex(id) == CHOOSE i \in 1..Len(bm25_ids) : bm25_ids[i] = id

\* A BM25 list in descending score order, equal scores in corpus order.
RankedLexically(list) ==
    \A i, j \in 1..Len(list) : i < j =>
        \/ list[i].score > list[j].score
        \/ /\ list[i].score = list[j].score
           /\ CorpusIndex(list[i].id) < CorpusIndex(list[j].id)

\* C11: the lexical search returns at most k chunks (bm25_k from
\* _bm25_search, n_results from keyword_only_search), only chunks with a
\* strictly positive score, in descending score order, equal scores in
\* corpus order.
C11_LexicalSearchOrder ==
    (ret.status = "ok" /\ ret.op \in {"search", "keyword_only_search"}) =>
        /\ Len(ret.bm25_results) <= rk.bm25_k
        /\ \A i \in 1..Len(ret.bm25_results) : ret.bm25_results[i].score > 0
        /\ RankedLexically(ret.bm25_results)
        /\ ret.op = "keyword_only_search" =>
            /\ Len(ret.results) <= ret.n_results
            /\ \A i \in 1..Len(ret.results) :
                /\ ret.results[i].score > 0
                /\ ret.results[i].bm25_rank = i
                /\ ret.results[i].chunk_id = ret.bm25_results[i].id
                /\ ret.results[i].score = ret.bm25_results[i].score

\* A keyword search over three chunks that cut the list to bm25_k = 2, kept
\* two chunks of equal score and left a chunk out.
C11_Witness ==
    /\ ret.status = "ok" /\ ret.op = "keyword_only_search"
    /\ Len(bm25_ids) > rk.bm25_k
    /\ Len(ret.results) = 2
    /\ ret.results[1].score = ret.results[2].score

\* C14: search on an empty corpus returns an empty ranked list and raises no
\* error (a failure of the vector sub-search itself aside).
C14_EmptyCorpusResult ==
    (ret.status \in {"ok", "raised"} /\ ret.op = "search" /\ store = <<>>
        /\ ~(ret.status = "raised" /\ ret.failed = "vector")) =>
        ret.status = "ok" /\ ret.results = <<>>

\* ---------------------------------------------------------------------------
\* Fusion by rank
\* ---------------------------------------------------------------------------

\* The same lists in the same order with other distances and other scores.
OtherDistances(vector_results) ==
    [i \in 1..Len(vector_results) |->
        [vector_results[i] EXCEPT !.distance = 10 * vector_results[i].distance + 3]]

OtherScores(bm25_results) ==
    [i \in 1..Len(bm25_results) |-> [bm25_results[i] EXCEPT !.score = 50 - i]]

\* C20: a search over the same two lists in the same order, with other
\* distance values and other BM25 score values, returns the same chunk ids
\* in the same order with the same fused scores.
C20_FusionUsesRanksOnly ==
    SearchReturned =>
        LET other == SearchReturn(ret.n_results, ret.where,
                                  OtherDistances(ret.vector_results),
                                  OtherScores(ret.bm25_results))
        IN  /\ other.combined = ret.combined
            /\ other.results = ret.results

\* A search that fused a chunk of both lists and returned it.
C20_Witness ==
    /\ SearchReturned
    /\ \E i \in 1..Len(ret.results) :
        ret.results[i].vector_rank > 0 /\ ret.results[i].bm25_rank > 0
    /\ Len(ret.combined) >= 2

\* ---------------------------------------------------------------------------
\* Chunker: configuration and failing sections
\* ---------------------------------------------------------------------------

\* C15: no Chunker with a zero or negative chunk_size or min_chunk_size ever
\* chunks a document (such a configuration is rejected at construction).
C15_InvalidConfigRejected ==
    chunked => (chunk_size > 0 /\ min_chunk_size > 0)

\* The document without the sections on which chunking fails.
WithoutFailingSections(d) ==
    [d EXCEPT !.sections = SelectSeq(d.sections, LAMBDA sec : ~EncodeRaises(sec.content))]

\* C16: when chunking one section fails, chunk_document skips that section
\* and still returns the chunks of every other section, of the data sheet
\* and of the tables.
C16_FailingSectionSkipped ==
    chunked =>
        /\ ~chunk_error
        /\ chunks = chunk_document(WithoutFailingSections(doc))

\* ---------------------------------------------------------------------------
\* Chunker: data sheet, rent schedules and emission order
\* ---------------------------------------------------------------------------

DataSheetChunkIdx == {i \in 1..Len(chunks) : chunks[i].section_type = "data_sheet"}

RentChunkIdx == {i \in 1..Len(chunks) : chunks[i].section_type = "rent_schedule"}

\* The tables of the document whose type is rent_schedule, in table order.
RentTables == SelectSeq(doc.tables, LAMBDA t : t.table_type = "rent_schedule")

\* The whole rendered segments, cleaned.
RenderedDataSheet == clean_for_embedding(<<"a", BL>> \o DataSheetLines(doc.data_sheet))

RenderedRentSchedule(table) == clean_for_embedding(<<"b", BL>> \o table.raw_text)

\* The k-th rent-schedule chunk of the list.
RentChunk(k) ==
    chunks[CHOOSE i \in RentChunkIdx : Cardinality({j \in RentChunkIdx : j <= i}) = k]

\* C18: exactly one data_sheet chunk when the data-sheet map is non-empty
\* (none otherwise) and exactly one rent_schedule chunk per rent_schedule
\* table (none for other tables), each holding the whole rendered segment
\* whatever its token count.
C18_WholeSegmentChunks ==
    (chunked /\ ~chunk_error) =>
        /\ Cardinality(DataSheetChunkIdx) = IF doc.data_sheet # <<>> THEN 1 ELSE 0
        /\ \A i \in DataSheetChunkIdx :
            /\ chunks[i].content = RenderedDataSheet
            /\ chunks[i].token_count = count_tokens(RenderedDataSheet)
        /\ Cardinality(RentChunkIdx) = Len(RentTables)
        /\ \A k \in 1..Len(RentTables) :
            /\ RentChunk(k).content = RenderedRentSchedule(RentTables[k])
            /\ RentChunk(k).token_count = count_tokens(RenderedRentSchedule(RentTables[k]))

\* A document whose data sheet is below min_chunk_size and whose long rent
\* schedule is above chunk_size, chunked.
C18_Witness ==
    /\ chunked /\ ~chunk_error
    /\ \E i \in DataSheetChunkIdx : chunks[i].token_count < min_chunk_size
    /\ \E i \in RentChunkIdx : chunks[i].token_count > chunk_size
    /\ \E i \in RentChunkIdx : chunks[i].token_count < min_chunk_size

\* 0: the data-sheet chunk, 1: a rent-schedule chunk, 2: a section chunk.
EmissionClass(c) ==
    IF IsSectionChunk(c) THEN 2 ELSE IF c.section_type = "rent_schedule" THEN 1 ELSE 0

\* The place of the section of a section chunk among the document's sections.
SectionPos(c) == CHOOSE k \in 1..Len(doc.sections) : doc.sections[k].name = c.section_name

\* C19: the chunk at position i has chunk_index i (0-based); the order is
\* the data-sheet chunk, the rent-schedule chunks in table order, the
\* section chunks in section order; the parts of one split section are
\* contiguous and numbered 1, 2, ... in increasing order.
C19_EmissionOrder ==
    (chunked /\ ~chunk_error) =>
        /\ \A i \in 1..Len(chunks) : chunks[i].chunk_index = i - 1
        /\ \A i, j \in 1..Len(chunks) : i < j =>
            /\ EmissionClass(chunks[i]) <= EmissionClass(chunks[j])
            /\ (IsSectionChunk(chunks[i]) /\ IsSectionChunk(chunks[j])) =>
                    SectionPos(chunks[i]) <= SectionPos(chunks[j])
        /\ \A k \in 1..Cardinality(RentChunkIdx) :
            k <= Len(RentTables) /\ RentChunk(k).content = RenderedRentSchedule(RentTables[k])
        /\ \A i \in SectionChunkIdx :
            IF chunks[i].chunk_part > 0
            THEN chunks[i].chunk_part = Cardinality({j \in SameSectionIdx(i) : j <= i})
            ELSE SameSectionIdx(i) = {i}

\* A document with a data sheet, two rent schedules and two sections, the
\* first section split in two parts.
C19_Witness ==
    /\ chunked /\ ~chunk_error
    /\ DataSheetChunkIdx # {} /\ Cardinality(RentChunkIdx) = 2
    /\ \E i, j \in SectionChunkIdx :
        /\ chunks[i].chunk_part = 2
        /\ i < j /\ chunks[j].section_name # chunks[i].section_name

(***************************************************************************)
(* Claims about threads sharing the ranker.                                *)
(***************************************************************************)

\* What a query returns from a complete index: the object built over corpus
\* together with the three lists of the same snapshot.
FromSnapshot(query, snapshot) ==
    _bm25_search(snapshot.ids, snapshot.docs, snapshot.metadatas,
                 GetScores(query, snapshot.corpus))

\* The complete index a build over the present store leaves.
NewSnapshot ==
    [ids |-> StoreIds, docs |-> StoreDocs, metadatas |-> StoreMetadatas, corpus |-> StoreDocs]

QueryDone(t) == threads[t].pc = "done" /\ threads[t].caller = "_bm25_search"

\* C12: on a non-empty corpus, a lexical query that runs while
\* refresh_bm25_index rebuilds the index returns, without raising, what the
\* complete old index gives or what the complete new index gives.
C12_RebuildAtomic ==
    (QueryDone("q1") /\ store # <<>>) =>
        /\ threads["q1"].status = "returned"
        /\ \/ threads["q1"].results = FromSnapshot(threads["q1"].query, NewSnapshot)
           \/ /\ threads["q1"].old # <<>>
              /\ threads["q1"].results = FromSnapshot(threads["q1"].query, threads["q1"].old[1])

\* What the query of thread t returns when it runs alone from the state it
\* started in: from the index in place, or from the one its lazy build makes.
AloneResults(t) ==
    FromSnapshot(threads[t].query,
                 IF threads[t].old # <<>> THEN threads[t].old[1] ELSE NewSnapshot)

\* C13: with the corpus unchanged while they run, lexical queries racing one
\* another on one ranker, the first lazy build included, all return, and
\* each returns what it returns when run alone.
C13_ConcurrentQueries ==
    \A t \in QueryThreads :
        QueryDone(t) =>
            /\ threads[t].status = "returned"
            /\ threads[t].results = AloneResults(t)

(***************************************************************************)
(* Further claims about the chunker.                                       *)
(***************************************************************************)

\* C21: every chunk chunk_document returns carries in token_count the
\* tokenizer's count of its own content.
C21_TokenCountOfContent ==
    (chunked /\ ~chunk_error) =>
        \A i \in 1..Len(chunks) : chunks[i].token_count = count_tokens(chunks[i].content)

\* The chunks of the list that come from the section of that name.
ChunksOfSection(name) ==
    {i \in SectionChunkIdx : chunks[i].section_name = name}

\* C26: a section whose cleaned text has at most chunk_size tokens gives one
\* chunk with the whole cleaned text when it has at least min_chunk_size
\* tokens and no chunk otherwise; a section without text gives no chunk.
C26_SmallSectionOneChunk ==
    (chunked /\ ~chunk_error) =>
        \A k \in 1..Len(doc.sections) :
            LET cleaned == clean_for_embedding(doc.sections[k].content)
                n == count_tokens(cleaned)
                mine == ChunksOfSection(doc.sections[k].name)
            IN  /\ (n <= chunk_size /\ n >= min_chunk_size) =>
                    /\ Cardinality(mine) = 1
                    /\ \A i \in mine : chunks[i].content = cleaned /\ chunks[i].chunk_part = 0
                /\ (n <= chunk_size /\ n < min_chunk_size) => mine = {}
                /\ cleaned = <<>> => mine = {}

\* A document chunked with one section of exactly min_chunk_size tokens kept
\* whole and one section with text dropped as too small.
C26_Witness ==
    /\ chunked /\ ~chunk_error
    /\ Len(doc.sections) = 2
    /\ \E k, m \in 1..2 :
        /\ count_tokens(clean_for_embedding(doc.sections[k].content)) = min_chunk_size
        /\ min_chunk_size <= chunk_size
        /\ Cardinality(ChunksOfSection(doc.sections[k].name)) = 1
        /\ doc.sections[m].content # <<>>
        /\ count_tokens(clean_for_embedding(doc.sections[m].content)) < min_chunk_size
        /\ ChunksOfSection(doc.sections[m].name) = {}

(***************************************************************************)
(* Further claims about the ranker.                                        *)
(***************************************************************************)

\* The entries of the fused list that pass the filter, in fused order.
FilteredFused ==
    SelectSeq(ret.combined, LAMBDA r : MatchesWhere(r.metadata, ret.where))

\* The number of results asked for: n_results, or final_k when it is None.
Asked == IF ret.n_results = -1 THEN rk.final_k ELSE ret.n_results

\* C27: a search with a metadata filter (and a count other than 0, which is
\* the case of C29) returns exactly the first n_results entries of the
\* filtered fused list.
C27_FilterBeforeTruncate ==
    (SearchReturned /\ DOMAIN ret.where # {} /\ ret.n_results # 0) =>
        ret.results = Take(FilteredFused, Asked)

\* A filtered search whose fused list has a candidate that fails the filter
\* within the first n_results places and a matching candidate beyond them,
\* which is returned.
C27_Witness ==
    /\ SearchReturned /\ DOMAIN ret.where # {} /\ ret.n_results # 0
    /\ \E i, j \in 1..Len(ret.combined) :
        /\ i <= Asked /\ Asked < j
        /\ ~MatchesWhere(ret.combined[i].metadata, ret.where)
        /\ MatchesWhere(ret.combined[j].metadata, ret.where)
        /\ \E k \in 1..Len(ret.results) : ret.results[k] = ret.combined[j]

\* C29: search returns at most n_results results for every n_results >= 0,
\* 0 included, and at most final_k results when n_results is None.
C29_AtMostNResults ==
    SearchReturned => Len(ret.results) <= Asked

\* C28: search_only with a tenant_filter returns only chunks of that tenant,
\* whatever the search_type.
C28_TenantFilterHonoured ==
    (ret.status = "ok" /\ ret.op = "search_only" /\ ret.tenant_filter # "None") =>
        \A i \in 1..Len(ret.results) :
            ret.results[i].metadata.tenant_name = ret.tenant_filter

(***************************************************************************)
(* AgentRouter.  Scores and the threshold are written in tenths: 7 is 0.7. *)
(***************************************************************************)

AgentNames == {"Agent1", "Agent2"}

\* confidence_threshold as handed to the constructor (default 0.7).
Thresholds == {0, 7, 10}

\* What one agent does with a message: its quick pattern filter rejects it,
\* can_handle raises, or can_handle returns a number.
ScoreOutcomes ==
    {[kind |-> "nomatch"], [kind |-> "raises"]}
    \cup {[kind |-> "score", value |-> v] : v \in {-1, 0, 5, 7, 10, 12}}

\* AgentRouter._score_all_agents, one agent: 0 for a filtered or raising
\* agent, the score clamped to 0..1 otherwise.
AgentScore(outcome) ==
    IF outcome.kind # "score" THEN 0 ELSE Max(0, Min(10, outcome.value))

\* AgentRouter._score_all_agents: the score of each agent, in list order.
_score_all_agents(outcomes) == [i \in 1..Len(outcomes) |-> AgentScore(outcomes[i])]

\* The loop of AgentRouter.route over the scores: the place of the best
\* agent (0: None) and its score.
RECURSIVE BestLoop(_, _, _, _)
BestLoop(scores, i, best_agent, best_score) ==
    IF i > Len(scores) THEN [best_agent |-> best_agent, best_score |-> best_score]
    ELSE IF scores[i] > best_score THEN BestLoop(scores, i + 1, i, scores[i])
    ELSE BestLoop(scores, i + 1, best_agent, best_score)

\* all_scores: keyed by agent name, a later agent of the same name replaces
\* an earlier one.
AllScores(agents, scores) ==
    [name \in {agents[i].name : i \in 1..Len(agents)} |->
        scores[CHOOSE i \in 1..Len(agents) :
                  /\ agents[i].name = name
                  /\ \A j \in 1..Len(agents) : agents[j].name = name => j <= i]]

\* A route that takes the best agent only above the threshold (> where the
\* code has >=).
RoutingResultStrict(agents, scores) ==
    LET best == BestLoop(scores, 1, 0, 0)
    IN  IF best.best_score > router.confidence_threshold /\ best.best_agent # 0
        THEN [agent |-> agents[best.best_agent].obj, agent_name |-> agents[best.best_agent].name,
              confidence |-> best.best_score, all_scores |-> AllScores(agents, scores),
              fallback_to_rag |-> FALSE]
        ELSE [agent |-> 0, agent_name |-> "None", confidence |-> best.best_score,
              all_scores |-> AllScores(agents, scores), fallback_to_rag |-> TRUE]

\* AgentRouter.route after the scoring: the RoutingResult (agent 0: None).
RoutingResult(agents, scores) ==
    LET best == BestLoop(scores, 1, 0, 0)
    IN  IF best.best_score >= router.confidence_threshold /\ best.best_agent # 0
        THEN [agent |-> agents[best.best_agent].obj, agent_name |-> agents[best.best_agent].name,
              confidence |-> best.best_score, all_scores |-> AllScores(agents, scores),
              fallback_to_rag |-> FALSE]
        ELSE [agent |-> 0, agent_name |-> "None", confidence |-> best.best_score,
              all_scores |-> AllScores(agents, scores), fallback_to_rag |-> TRUE]

\* An _execute_rag_fallback that lets the exception of the query engine through.
ExecuteRagFallbackUnguarded(chat) ==
    IF router.query_engine = "None"
    THEN [status |-> "returned", from |-> 0, agent_name |-> "fallback"]
    ELSE IF chat = "raises"
    THEN [status |-> "raised", from |-> 0, agent_name |-> "None"]
    ELSE [status |-> "returned", from |-> 0, agent_name |-> "rag"]

\* AgentRouter._execute_rag_fallback: chat is what query_engine.chat does.
_execute_rag_fallback(chat) ==
    IF router.query_engine = "None"
    THEN [status |-> "returned", from |-> 0, agent_name |-> "fallback"]
    ELSE IF chat = "raises"
    THEN [status |-> "returned", from |-> 0, agent_name |-> "error"]
    ELSE [status |-> "returned", from |-> 0, agent_name |-> "rag"]

InitRouter ==
    /\ ChunkerIdle /\ RankerIdle /\ SqlIdle
    /\ router \in [agents : {<<>>}, query_engine : {"None", "engine"},
                   confidence_threshold : Thresholds]
    /\ route_ret = NoCall

\* An object id no registered agent has.
FreeObj == CHOOSE k \in 1..MaxAgents : \A i \in 1..Len(router.agents) : router.agents[i].obj # k

\* router.register_agent(agent)
RegisterAgent ==
    /\ route_ret = NoCall
    /\ Len(router.agents) < MaxAgents
    /\ \E name \in AgentNames :
        router' = [router EXCEPT !.agents = Append(@, [obj |-> FreeObj, name |-> name])]
    /\ UNCHANGED <<route_ret, chunker_vars, ranker_vars, sql_vars>>

\* router.unregister_agent(agent_name): the first agent of that name goes.
UnregisterAgent ==
    /\ route_ret = NoCall
    /\ \E name \in AgentNames :
        /\ \E i \in 1..Len(router.agents) : router.agents[i].name = name
        /\ LET first == CHOOSE i \in 1..Len(router.agents) :
                            /\ router.agents[i].name = name
                            /\ \A j \in 1..(i - 1) : router.agents[j].name # name
           IN  router' = [router EXCEPT !.agents =
                            SubSeq(@, 1, first - 1) \o SubSeq(@, first + 1, Len(@))]
    /\ UNCHANGED <<route_ret, chunker_vars, ranker_vars, sql_vars>>

\* router.route(message, context)
Route ==
    /\ route_ret = NoCall
    /\ \E outcomes \in [1..Len(router.agents) -> ScoreOutcomes] :
        LET scores == _score_all_agents(outcomes)
        IN  route_ret' = [status |-> "returned", op |-> "route", scores |-> scores,
                          result |-> RoutingResult(router.agents, scores)]
    /\ UNCHANGED <<router, chunker_vars, ranker_vars, sql_vars>>

\* router.execute(message, context): agent_execute is what the selected
\* agent's execute does, chat what query_engine.chat does.
Execute ==
    /\ route_ret = NoCall
    /\ \E outcomes \in [1..Len(router.agents) -> ScoreOutcomes], agent_execute \in {"returns", "raises"}, chat \in {"returns", "raises"} :
        LET scores == _score_all_agents(outcomes)
            result == RoutingResult(router.agents, scores)
            response == IF result.agent # 0
                        THEN IF agent_execute = "raises"
                             THEN [status |-> "raised", from |-> result.agent,
                                   agent_name |-> "None"]
                             ELSE [status |-> "returned", from |-> result.agent,
                                   agent_name |-> result.agent_name]
                        ELSE _execute_rag_fallback(chat)
        IN  route_ret' = [status |-> response.status, op |-> "execute", scores |-> scores,
                          result |-> result, chat |-> chat, response |-> response]
    /\ UNCHANGED <<router, chunker_vars, ranker_vars, sql_vars>>

\* The caller takes what the call returned or raised.
TakeRouted ==
    /\ route_ret # NoCall
    /\ route_ret' = NoCall
    /\ UNCHANGED <<router, chunker_vars, ranker_vars, sql_vars>>

NextRouter == RegisterAgent \/ UnregisterAgent \/ Route \/ Execute \/ TakeRouted

SpecRouter == InitRouter /\ [][NextRouter]_vars

(***************************************************************************)
(* Claims about the router.                                                *)
(***************************************************************************)

\* The highest score of a non-empty list of scores.
HighestScore(scores) == CHOOSE v \in SetOf(scores) : \A w \in SetOf(scores) : w <= v

RouteReturned == route_ret.status = "returned" /\ route_ret.op = "route"

\* The score of the agent a routing result names.
ScoreOfRouted ==
    route_ret.scores[CHOOSE i \in 1..Len(router.agents) :
                        router.agents[i].obj = route_ret.result.agent]

\* C22 as stated: route returns the agent with the highest score whenever
\* that score is at least confidence_threshold, and None with the best score
\* as confidence otherwise; fallback_to_rag is TRUE exactly when agent is None.
C22_RouteBestAboveThreshold ==
    RouteReturned =>
        LET scores == route_ret.scores
            result == route_ret.result
            best == IF scores = <<>> THEN 0 ELSE HighestScore(scores)
        IN  /\ IF scores # <<>> /\ best >= router.confidence_threshold
               THEN /\ result.agent # 0
                    /\ ScoreOfRouted = best
                    /\ result.confidence = best
                    /\ ~result.fallback_to_rag
               ELSE /\ result.agent = 0
                    /\ result.fallback_to_rag
                    /\ result.confidence = best
            /\ result.fallback_to_rag <=> (result.agent = 0)

\* C22 amended: the agent with the highest score is returned when that score
\* is positive and at least confidence_threshold.
C22_RouteBestPositiveAboveThreshold ==
    RouteReturned =>
        LET scores == route_ret.scores
            result == route_ret.result
            best == IF scores = <<>> THEN 0 ELSE HighestScore(scores)
        IN  /\ IF best > 0 /\ best >= router.confidence_threshold
               THEN /\ result.agent # 0
                    /\ ScoreOfRouted = best
                    /\ result.confidence = best
                    /\ ~result.fallback_to_rag
               ELSE /\ result.agent = 0
                    /\ result.fallback_to_rag
                    /\ result.confidence = best
            /\ result.fallback_to_rag <=> (result.agent = 0)

\* A route over two agents whose second agent has the higher score, exactly
\* the threshold, and is returned.
C22_Witness ==
    /\ RouteReturned
    /\ Len(router.agents) = 2
    /\ route_ret.scores[1] > 0 /\ route_ret.scores[1] < route_ret.scores[2]
    /\ route_ret.scores[2] = router.confidence_threshold
    /\ route_ret.result.agent = router.agents[2].obj

ExecuteCalled == route_ret.status # "none" /\ route_ret.op = "execute"

\* C23: when routing selects an agent and it answers, the response is that
\* agent's and carries its name; when routing selects none, execute does not
\* raise and the response is named "fallback" without a query engine,
\* "error" when the query engine raises and "rag" otherwise.
C23_ExecuteNamesHandler ==
    ExecuteCalled =>
        IF route_ret.result.agent # 0
        THEN route_ret.status = "returned" =>
                /\ route_ret.response.from = route_ret.result.agent
                /\ route_ret.response.agent_name = route_ret.result.agent_name
        ELSE /\ route_ret.status = "returned"
             /\ route_ret.response.agent_name =
                    IF router.query_engine = "None" THEN "fallback"
                    ELSE IF route_ret.chat = "raises" THEN "error"
                    ELSE "rag"

\* An execute that fell back to a query engine that raised.
C23_Witness ==
    /\ ExecuteCalled
    /\ route_ret.result.agent = 0
    /\ router.agents # <<>>
    /\ router.query_engine = "engine" /\ route_ret.chat = "raises"
    /\ route_ret.response.agent_name = "error"

(***************************************************************************)
(* SQLStore.  A date is written as its day number; a date string is the    *)
(* day it names together with its spelling, since the store keeps the      *)
(* strings it is handed and strftime writes zero-padded ones.              *)
(***************************************************************************)

\* end_date as handed to add_lease and update_lease: None, the empty string,
\* a string that "%Y-%m-%d" does not parse, and dates, zero-padded or not
\* ("2025-7-1" parses as "2025-07-01").
EndDates ==
    {[kind |-> "None"], [kind |-> "empty"], [kind |-> "invalid"],
     [kind |-> "date", day |-> 100, padded |-> TRUE],
     [kind |-> "date", day |-> 200, padded |-> TRUE],
     [kind |-> "date", day |-> 200, padded |-> FALSE]}

\* datetime.strptime(end_date, "%Y-%m-%d"): the day, whatever the padding.
Strptime(end_date) == end_date.day

\* dt.strftime("%Y-%m-%d"): the zero-padded string of the day.
Strftime(day) == [kind |-> "date", day |-> day, padded |-> TRUE]

\* `if kwargs.get('end_date')`: None and '' are falsy.
Truthy(end_date) == end_date.kind \notin {"None", "empty"}

\* An add_tenant over a table without the UNIQUE constraint: every call
\* inserts a row.
AddTenantNoUnique(name) ==
    [tenants |-> Append(tenants, [tenant_id |-> Len(tenants) + 1, tenant_name |-> name]),
     tenant_id |-> Len(tenants) + 1]

\* SQLStore.add_tenant: the table and the id returned.  The INSERT fails on
\* the UNIQUE tenant_name when the name is there, and the id of that row is
\* read back.
add_tenant(name) ==
    IF \E i \in 1..Len(tenants) : tenants[i].tenant_name = name
    THEN [tenants |-> tenants,
          tenant_id |-> tenants[CHOOSE i \in 1..Len(tenants) :
                                    tenants[i].tenant_name = name].tenant_id]
    ELSE [tenants |-> Append(tenants, [tenant_id |-> Len(tenants) + 1, tenant_name |-> name]),
          tenant_id |-> Len(tenants) + 1]

alert_periods == <<90, 60, 30>>

\* Alerts at 90 and 60 days only.
CreateExpirationAlertsTwo(lease_id, end_date) ==
    [k \in 1..2 |->
        [alert_id |-> Len(lease_alerts) + k, lease_id |-> lease_id,
         alert_type |-> "expiration",
         alert_date |-> Strftime(Strptime(end_date) - alert_periods[k]),
         days_notice |-> alert_periods[k], status |-> "pending"]]

\* SQLStore._create_expiration_alerts: the rows it inserts.
_create_expiration_alerts(lease_id, end_date) ==
    [k \in 1..Len(alert_periods) |->
        [alert_id |-> Len(lease_alerts) + k, lease_id |-> lease_id,
         alert_type |-> "expiration",
         alert_date |-> Strftime(Strptime(end_date) - alert_periods[k]),
         days_notice |-> alert_periods[k], status |-> "pending"]]

InitSql ==
    /\ ChunkerIdle /\ RankerIdle /\ RouterIdle
    /\ tenants = <<>> /\ leases = <<>> /\ lease_alerts = <<>>
    /\ sql_ret = NoCall
    /\ first_tenant_id = [name \in TenantNames |-> 0]

\* The history of the ids add_tenant returned.
NoteFirst(name, tenant_id) ==
    first_tenant_id' = IF first_tenant_id[name] = 0
                       THEN [first_tenant_id EXCEPT ![name] = tenant_id]
                       ELSE first_tenant_id

\* store.add_tenant(tenant_name)
AddTenant ==
    /\ sql_ret = NoCall
    /\ \E name \in TenantNames :
        \E added \in {add_tenant(name)} :
            /\ tenants' = added.tenants
            /\ NoteFirst(name, added.tenant_id)
            /\ sql_ret' = [status |-> "returned", op |-> "add_tenant", tenant_name |-> name,
                           tenant_id |-> added.tenant_id]
    /\ UNCHANGED <<leases, lease_alerts, chunker_vars, ranker_vars, router_vars>>

\* store.add_lease(tenant_name, lease_file, end_date=...)
AddLease ==
    /\ sql_ret = NoCall
    /\ Len(leases) < MaxLeases
    /\ \E name \in TenantNames, end_date \in EndDates :
        \E added \in {add_tenant(name)} :
            LET lease_id == Len(leases) + 1
            IN  /\ tenants' = added.tenants
                /\ NoteFirst(name, added.tenant_id)
                /\ leases' = Append(leases, [lease_id |-> lease_id,
                                             tenant_id |-> added.tenant_id,
                                             end_date |-> end_date])
                /\ lease_alerts' =
                        IF Truthy(end_date) /\ end_date.kind = "date"
                        THEN lease_alerts \o _create_expiration_alerts(lease_id, end_date)
                        ELSE lease_alerts
                /\ sql_ret' = [status |-> IF end_date.kind = "invalid" THEN "raised"
                                          ELSE "returned",
                               op |-> "add_lease", tenant_name |-> name,
                               tenant_id |-> added.tenant_id, lease_id |-> lease_id,
                               end_date |-> end_date]
    /\ UNCHANGED <<chunker_vars, ranker_vars, router_vars>>

\* store.update_lease(lease_id, **kwargs): kwargs sets end_date or another column.
UpdateLease ==
    /\ sql_ret = NoCall
    /\ \E lease_id \in 1..MaxLeases, kwargs \in [end_date : EndDates] \cup {[base_rent |-> 1]} :
        /\ leases' = [i \in 1..Len(leases) |->
                        IF leases[i].lease_id = lease_id /\ "end_date" \in DOMAIN kwargs
                        THEN [leases[i] EXCEPT !.end_date = kwargs.end_date]
                        ELSE leases[i]]
        /\ sql_ret' = [status |-> "returned", op |-> "update_lease", lease_id |-> lease_id,
                       kwargs |-> kwargs, updated |-> lease_id <= Len(leases)]
    /\ UNCHANGED <<tenants, lease_alerts, first_tenant_id, chunker_vars, ranker_vars, router_vars>>

\* store.dismiss_alert(alert_id)
DismissAlert ==
    /\ sql_ret = NoCall
    /\ \E alert_id \in 1..(3 * MaxLeases) :
        /\ lease_alerts' = [i \in 1..Len(lease_alerts) |->
                                IF lease_alerts[i].alert_id = alert_id
                                THEN [lease_alerts[i] EXCEPT !.status = "dismissed"]
                                ELSE lease_alerts[i]]
        /\ sql_ret' = [status |-> "returned", op |-> "dismiss_alert", alert_id |-> alert_id]
    /\ UNCHANGED <<tenants, leases, first_tenant_id, chunker_vars, ranker_vars, router_vars>>

\* The caller takes what the call returned or raised.
TakeSql ==
    /\ sql_ret # NoCall
    /\ sql_ret' = NoCall
    /\ UNCHANGED <<tenants, leases, lease_alerts, first_tenant_id, chunker_vars, ranker_vars, router_vars>>

\* Tenants and leases are added.
NextTenants == AddTenant \/ AddLease \/ TakeSql

SpecTenants == InitSql /\ [][NextTenants]_vars

\* Leases are added and updated, alerts dismissed.
NextLeases == AddLease \/ UpdateLease \/ DismissAlert \/ TakeSql

SpecLeases == InitSql /\ [][NextLeases]_vars

(***************************************************************************)
(* Claims about the SQLStore.                                              *)
(***************************************************************************)

\* C24: there is at most one tenant row per name, and every add_tenant call
\* for a name, a call made by add_lease included, returns the id the first
\* call for that name returned.
C24_AddTenantIdempotent ==
    /\ \A i, j \in 1..Len(tenants) :
        tenants[i].tenant_name = tenants[j].tenant_name => i = j
    /\ (sql_ret.status # "none" /\ sql_ret.op \in {"add_tenant", "add_lease"}) =>
            sql_ret.tenant_id = first_tenant_id[sql_ret.tenant_name]

\* A second add_tenant for a name, after a tenant of another name was added.
C24_Witness ==
    /\ sql_ret.status = "returned" /\ sql_ret.op = "add_tenant"
    /\ Len(tenants) = 2
    /\ sql_ret.tenant_id = 1

\* The alerts of a lease, in alert_id order.
AlertsOf(lease_id) == SelectSeq(lease_alerts, LAMBDA a : a.lease_id = lease_id)

\* C25: an add_lease that returns leaves the alerts there were unchanged and
\* adds, for a lease with an end_date, exactly three alerts of the new
\* lease, of type expiration and status pending, dated 90, 60 and 30 days
\* before the end date, and none for a lease without end_date.
C25_AddLeaseCreatesAlerts ==
    [][(sql_ret = NoCall /\ sql_ret'.status = "returned" /\ sql_ret'.op = "add_lease") =>
        LET new == SubSeq(lease_alerts', Len(lease_alerts) + 1, Len(lease_alerts'))
            end_date == sql_ret'.end_date
        IN  /\ Len(lease_alerts') >= Len(lease_alerts)
            /\ SubSeq(lease_alerts', 1, Len(lease_alerts)) = lease_alerts
            /\ IF end_date.kind = "date"
               THEN /\ Len(new) = 3
                    /\ \A k \in 1..3 :
                        /\ new[k].lease_id = sql_ret'.lease_id
                        /\ new[k].alert_type = "expiration"
                        /\ new[k].status = "pending"
                    /\ {new[k].alert_date.day : k \in 1..3} =
                            {end_date.day - 90, end_date.day - 60, end_date.day - 30}
                    /\ \A k \in 1..3 : new[k].alert_date.day = end_date.day - new[k].days_notice
               ELSE new = <<>>]_vars

\* An add_lease with an end date, returned, while another lease has alerts.
C25_Witness ==
    /\ sql_ret.status = "returned" /\ sql_ret.op = "add_lease"
    /\ sql_ret.end_date.kind = "date"
    /\ sql_ret.lease_id = 2
    /\ Len(AlertsOf(1)) = 3 /\ Len(AlertsOf(2)) = 3

\* C30: every lease whose end_date is a date has exactly three expiration
\* alerts, and the alert_date of each is the lease's present end_date minus
\* its days_notice.
C30_AlertsFollowEndDate ==
    \A i \in 1..Len(leases) :
        leases[i].end_date.kind = "date" =>
            LET mine == AlertsOf(leases[i].lease_id)
            IN  /\ Len(mine) = 3
                /\ \A k \in 1..Len(mine) :
                    /\ mine[k].alert_type = "expiration"
                    /\ mine[k].days_notice \in {90, 60, 30}
                    /\ mine[k].alert_date.day = leases[i].end_date.day - mine[k].days_notice

====
